---------------------------- MODULE Spec2Model ----------------------------
(***************************************************************************)
(* Model of the hex/binary column slicer: the value engine of logic.py and *)
(* the HexSlicerApp handlers of main.py.                                   *)
(*                                                                         *)
(* A Python str is a sequence of one-character strings, so that indexing,  *)
(* slicing, padding and substring search are computed as Python computes   *)
(* them.  A missing cell (pandas NaN) is the value NaN.                    *)
(***************************************************************************)
EXTENDS Integers, Sequences, FiniteSets, TLC

(***************************************************************************)
(* Python str primitives                                                   *)
(***************************************************************************)
NaN == <<"NaN">>

Whitespace == {" "}

HexDigits == <<"0","1","2","3","4","5","6","7","8","9","a","b","c","d","e","f">>

HexChars == {HexDigits[i] : i \in 1..16}

NonBinaryHexChars == {HexDigits[i] : i \in 3..16}

UpperChars == <<"A","B","C","D","E","F","N","X">>

LowerChars == <<"a","b","c","d","e","f","n","x">>

Max(a, b) == IF a >= b THEN a ELSE b

Min(a, b) == IF a <= b THEN a ELSE b

\* '0' * n: the empty string when n <= 0
Zeros(n) == [i \in 1..Max(n, 0) |-> "0"]

\* ch.lower()
LowerChar(ch) ==
    IF \E i \in 1..Len(UpperChars) : UpperChars[i] = ch
    THEN LowerChars[CHOOSE i \in 1..Len(UpperChars) : UpperChars[i] = ch]
    ELSE ch

\* s.lower()
PyLower(s) == [i \in 1..Len(s) |-> LowerChar(s[i])]

\* s.strip()
PyStrip(s) ==
    LET keep == {i \in 1..Len(s) : s[i] \notin Whitespace}
    IN  IF keep = {} THEN <<>>
        ELSE LET lo == CHOOSE i \in keep : \A j \in keep : i <= j
                 hi == CHOOSE i \in keep : \A j \in keep : j <= i
             IN  SubSeq(s, lo, hi)

\* s[a:b] with Python's treatment of negative and out-of-range indices
PySlice(s, a, b) ==
    LET n  == Len(s)
        lo == IF a < 0 THEN Max(a + n, 0) ELSE Min(a, n)
        hi == IF b < 0 THEN Max(b + n, 0) ELSE Min(b, n)
    IN  SubSeq(s, lo + 1, hi)

\* s[a:]
PyTail(s, a) == PySlice(s, a, Len(s))

\* s.startswith(p)
StartsWith(s, p) == Len(s) >= Len(p) /\ SubSeq(s, 1, Len(p)) = p

\* p in s
Contains(s, p) ==
    \E i \in 0..(Len(s) - Len(p)) : SubSeq(s, i + 1, i + Len(p)) = p

\* s.zfill(width): zeros go after a leading sign
PyZfill(s, width) ==
    IF Len(s) >= width THEN s
    ELSE IF Len(s) > 0 /\ s[1] \in {"+", "-"}
         THEN <<s[1]>> \o Zeros(width - Len(s)) \o Tail(s)
         ELSE Zeros(width - Len(s)) \o s

\* the index of a hexadecimal digit in HexDigits, minus one
HexVal(ch) == (CHOOSE i \in 1..16 : HexDigits[i] = LowerChar(ch)) - 1

\* the four bits of a value 0..15, most significant first
Nibble(v) ==
    << HexDigits[((v \div 8) % 2) + 1], HexDigits[((v \div 4) % 2) + 1],
       HexDigits[((v \div 2) % 2) + 1], HexDigits[(v % 2) + 1] >>

RECURSIVE StripLeadingZeros(_)
StripLeadingZeros(s) ==
    IF Len(s) > 0 /\ s[1] = "0" THEN StripLeadingZeros(Tail(s)) ELSE s

RECURSIVE Flatten(_)
Flatten(ss) == IF ss = <<>> THEN <<>> ELSE Head(ss) \o Flatten(Tail(ss))

RECURSIVE SeqSum(_)
SeqSum(ws) == IF ws = <<>> THEN 0 ELSE Head(ws) + SeqSum(Tail(ws))

(***************************************************************************)
(* int(s, base): optional sign, for base 16 an optional 0x prefix with one *)
(* underscore allowed after it, then digits with single underscores        *)
(* between them.  The result keeps the sign and the digit string: the      *)
(* magnitude of a hexadecimal word does not fit the model's integers.      *)
(***************************************************************************)
IntFail == [ok |-> FALSE, neg |-> FALSE, digits |-> <<>>]

DigitsOk(s, allowed) ==
    /\ Len(s) > 0
    /\ s[1] # "_"
    /\ s[Len(s)] # "_"
    /\ \A i \in 1..Len(s) : s[i] \in allowed \cup {"_"}
    /\ \A i \in 1..(Len(s) - 1) : ~(s[i] = "_" /\ s[i + 1] = "_")

DropUnderscores(s) == SelectSeq(s, LAMBDA ch : ch # "_")

IntDigitChars(base) ==
    IF base = 16 THEN HexChars \cup {"A","B","C","D","E","F"}
    ELSE {HexDigits[i] : i \in 1..10}

\* the digits, once the sign and the prefix are gone
IntDigits(s, neg, base) ==
    IF DigitsOk(s, IntDigitChars(base))
    THEN [ok |-> TRUE, neg |-> neg, digits |-> DropUnderscores(s)]
    ELSE IntFail

\* after a 0x prefix one underscore may come first
IntAfterPrefix(s, neg, base) ==
    IntDigits(IF Len(s) > 0 /\ s[1] = "_" THEN Tail(s) ELSE s, neg, base)

IntUnsigned(s, neg, base) ==
    IF base = 16 /\ Len(s) >= 2 /\ s[1] = "0" /\ s[2] \in {"x", "X"}
    THEN IntAfterPrefix(SubSeq(s, 3, Len(s)), neg, base)
    ELSE IntDigits(s, neg, base)

IntStripped(s, base) ==
    IF Len(s) > 0 /\ s[1] \in {"+", "-"}
    THEN IntUnsigned(Tail(s), s[1] = "-", base)
    ELSE IntUnsigned(s, FALSE, base)

PyInt(str, base) == IntStripped(PyStrip(str), base)

\* the binary digits of a hexadecimal digit string, without leading zeros
BinDigits(digits) ==
    StripLeadingZeros(Flatten([i \in 1..Len(digits) |-> Nibble(HexVal(digits[i]))]))

\* bin(n)[2:] from n's sign and binary digits: bin(n) is '0b...', and
\* '-0b...' for a negative n, of which [2:] leaves 'b...'
BinTail(neg, bits) ==
    IF bits = <<>> THEN <<"0">>
    ELSE IF neg THEN <<"b">> \o bits
    ELSE bits

BinFrom2(n) == BinTail(n.neg, BinDigits(n.digits))

\* the value of a decimal digit string
RECURSIVE DecValue(_)
DecValue(ds) ==
    IF ds = <<>> THEN 0
    ELSE 10 * DecValue(SubSeq(ds, 1, Len(ds) - 1)) + HexVal(ds[Len(ds)])

\* str(n) of an integer
RECURSIVE NatStr(_)
NatStr(n) ==
    IF n < 10 THEN <<HexDigits[n + 1]>>
    ELSE NatStr(n \div 10) \o <<HexDigits[(n % 10) + 1]>>

IntStr(n) == IF n < 0 THEN <<"-">> \o NatStr(0 - n) ELSE NatStr(n)

(***************************************************************************)
(* logic.py                                                                *)
(***************************************************************************)
HexWordBits == 32

HexPadDigits == 8

BinaryMinDigits == 8

\* the removal of a leading '0x' (the string is lower-cased already)
DropHexPrefix(s) == IF StartsWith(s, <<"0","x">>) THEN PyTail(s, 2) ELSE s

\* hex_to_32bit_bin from int()'s result: the except branch when it raised
HexWord(n) == IF n.ok THEN PyZfill(BinFrom2(n), HexWordBits) ELSE Zeros(HexWordBits)

hex_to_32bit_bin(hex_val) ==
    HexWord(PyInt(PyZfill(DropHexPrefix(PyLower(PyStrip(hex_val))), HexPadDigits), 16))

\* is_likely_binary's three tests, on the stripped, lower-cased, unprefixed string
LooksBinary(val_str) ==
    IF ~(\A i \in 1..Len(val_str) : val_str[i] \in HexChars) THEN FALSE
    ELSE IF \E i \in 1..Len(val_str) : val_str[i] \in NonBinaryHexChars THEN FALSE
    ELSE Len(val_str) > BinaryMinDigits

is_likely_binary(value) == LooksBinary(DropHexPrefix(PyLower(PyStrip(value))))

\* detect_bit_length on the stripped string
StrippedBitLength(val_str) ==
    IF is_likely_binary(val_str) THEN Len(val_str) ELSE HexWordBits

detect_bit_length(value) == StrippedBitLength(PyStrip(value))

\* one iteration's value when the cursor is at or past the end of the word
BeyondSlice(bin_str, start, bits) == Zeros(bits)

\* a slicer that pads a straddling field on the left instead of the right
StraddleSliceLeftPad(bin_str, start, bits) ==
    LET remaining == Len(bin_str) - start
    IN  Zeros(bits - remaining) \o PyTail(bin_str, start)

\* one iteration's value when the field straddles the end of the word
StraddleSlice(bin_str, start, bits) ==
    LET remaining == Len(bin_str) - start
    IN  PyTail(bin_str, start) \o Zeros(bits - remaining)

\* a slicer that forgets the cursor in the end of the slice: bin_str[start:bits]
ExactSliceNoOffset(bin_str, start, bits) ==
    PyZfill(PySlice(bin_str, start, bits), bits)

\* one iteration's value when the field lies inside the word
ExactSlice(bin_str, start, bits) ==
    PyZfill(PySlice(bin_str, start, start + bits), bits)

RECURSIVE SliceFrom(_, _, _)
SliceFrom(bin_str, bit_assignments, start) ==
    IF bit_assignments = <<>> THEN <<>>
    ELSE LET bits      == Head(bit_assignments)
             slice_val == IF start >= Len(bin_str)
                          THEN BeyondSlice(bin_str, start, bits)
                          ELSE IF start + bits > Len(bin_str)
                               THEN StraddleSlice(bin_str, start, bits)
                               ELSE ExactSlice(bin_str, start, bits)
         IN  <<slice_val>> \o SliceFrom(bin_str, Tail(bit_assignments), start + bits)

slice_bits_custom(bin_str, bit_assignments) == SliceFrom(bin_str, bit_assignments, 0)

\* s.split(',')
RECURSIVE SplitComma(_)
SplitComma(s) ==
    IF \E i \in 1..Len(s) : s[i] = ","
    THEN LET k == CHOOSE i \in 1..Len(s) : s[i] = "," /\ \A j \in 1..(i - 1) : s[j] # ","
         IN  <<SubSeq(s, 1, k - 1)>> \o SplitComma(SubSeq(s, k + 1, Len(s)))
    ELSE <<s>>

\* the value of int(p) for a decimal p that PyInt accepted
IntValue(n) == IF n.neg THEN 0 - DecValue(n.digits) ELSE DecValue(n.digits)

\* the list of int(p.strip()): ok is FALSE where one of them raises ValueError
ParsedWidths(ints) ==
    IF \A i \in 1..Len(ints) : ints[i].ok
    THEN [ok |-> TRUE, widths |-> [i \in 1..Len(ints) |-> IntValue(ints[i])]]
    ELSE [ok |-> FALSE, widths |-> <<>>]

\* the pieces that are not blank
KeptParts(parts) == SelectSeq(parts, LAMBDA p : PyStrip(p) # <<>>)

PartInts(kept) == [i \in 1..Len(kept) |-> PyInt(PyStrip(kept[i]), 10)]

parse_bit_assignments(assignment_str) ==
    ParsedWidths(PartInts(KeptParts(SplitComma(PyStrip(assignment_str)))))

generate_column_names(base_name, bit_assignments) ==
    [k \in 1..Len(bit_assignments) |->
        base_name \o <<"_","b">> \o IntStr(k - 1) \o <<"_">>
                  \o IntStr(bit_assignments[k]) \o <<"b","i","t">>]

(***************************************************************************)
(* main.py: the helpers of HexSlicerApp                                    *)
(***************************************************************************)
\* load_file's test of a column name
IsBinaryColumnName(col) ==
    Contains(col, <<"_","b">>) /\ Contains(col, <<"_","b","i","t">>)

\* get_bit_assignments, uniform mode: range(0, bit_length, slice_size)
uniform_assignments(bit_length, slice_size) ==
    LET n == IF bit_length <= 0 THEN 0
             ELSE (bit_length + slice_size - 1) \div slice_size
    IN  [k \in 1..n |-> Min(slice_size, bit_length - (k - 1) * slice_size)]

\* the bit length of one present value
value_bit_length(val_str, known_binary) ==
    IF known_binary THEN Len(val_str)
    ELSE IF is_likely_binary(val_str) THEN Len(val_str)
    ELSE HexWordBits

FirstPresent(cells) ==
    CHOOSE i \in 1..Len(cells) :
        cells[i] # NaN /\ \A j \in 1..(i - 1) : cells[j] = NaN

\* the bit length read off the first present value of a column
\* (the loop shared by on_column_changed and get_current_bit_length)
first_value_bit_length(cells, known_binary) ==
    IF \A i \in 1..Len(cells) : cells[i] = NaN THEN HexWordBits
    ELSE value_bit_length(PyStrip(cells[FirstPresent(cells)]), known_binary)

\* Series.astype(str): a pandas before 3.0 turns a missing cell into the
\* string 'nan', a pandas from 3.0 on keeps it missing
astype_str(cells, keep_na) ==
    [i \in 1..Len(cells) |->
        IF cells[i] = NaN /\ ~keep_na THEN <<"n","a","n">> ELSE cells[i]]

\* which branch of process_column's loop decodes a present value
decode_path(val_str, known_binary) ==
    IF known_binary THEN "known_binary"
    ELSE IF is_likely_binary(val_str) THEN "binary"
    ELSE "hex"

\* the bit word that branch hands to the slicer
decode(val_str, path, expected_bits) ==
    IF path = "hex" THEN hex_to_32bit_bin(val_str)
    ELSE PyZfill(val_str, expected_bits)

sliced_row(val_str, path, bin_str, bit_assignments) ==
    [present |-> TRUE, val_str |-> val_str, path |-> path, bin_str |-> bin_str,
     sliced  |-> slice_bits_custom(bin_str, bit_assignments)]

decoded_row(val_str, path, expected_bits, bit_assignments) ==
    sliced_row(val_str, path, decode(val_str, path, expected_bits), bit_assignments)

present_row(val_str, known_binary, expected_bits, bit_assignments) ==
    decoded_row(val_str, decode_path(val_str, known_binary), expected_bits,
                bit_assignments)

\* the body of process_column's loop for one cell
process_row(val, known_binary, expected_bits, bit_assignments) ==
    IF val # NaN
    THEN present_row(PyStrip(val), known_binary, expected_bits, bit_assignments)
    ELSE [present |-> FALSE, val_str |-> <<>>, path |-> "absent", bin_str |-> <<>>,
          sliced  |-> [k \in 1..Len(bit_assignments) |-> <<>>]]

(***************************************************************************)
(* The workbooks the file dialog can open.  A header cell is a string or a *)
(* number; the data are kept by column.                                    *)
(***************************************************************************)
StrCell(text) == [is_str |-> TRUE, text |-> text]

NumCell(text) == [is_str |-> FALSE, text |-> text]

ColR == <<"r">>

ColV == <<"v">>

WorkbookA ==
    [header |-> <<StrCell(ColR), StrCell(ColV)>>,
     data   |-> << <<NaN, <<"-","1">>, <<"z","z">>, <<"f","f">> >>,
                   << <<"1","1","0","0","1","1","0","0","1">>,
                      <<"0","x","1","1","1","1","1","1","1","1","1">>,
                      <<"f","f">>, NaN >> >>]

ColK == <<"k","_","b","i","t">>

WorkbookC ==
    [header |-> <<StrCell(ColK)>>,
     data   |-> << << <<"0","1","0","1">>, <<"1","1">>, <<"1","0","1","1","0">> >> >>]

WorkbookB ==
    [header |-> <<NumCell(<<"7">>)>>,
     data   |-> << << <<" ","1","0","1","0","1","0","1","0","1","0">>,
                      <<"1","0","1">>, NaN, <<"1","0","1","0","1","0","1","0","1","1">> >> >>]

MaxRows == 3

InputWorkbooks ==
    {[header |-> w.header,
      data   |-> [c \in 1..Len(w.data) |-> SubSeq(w.data[c], 1, Min(MaxRows, Len(w.data[c])))]]
        : w \in {WorkbookA, WorkbookB, WorkbookC}}

\* pd.read_excel as load_file calls it: the first row as the header, or, when
\* a header cell is not a string, no header and the names Column_<i>
read_excel(w) ==
    IF \A c \in 1..Len(w.header) : w.header[c].is_str
    THEN [columns |-> [c \in 1..Len(w.header) |-> w.header[c].text],
          data    |-> w.data]
    ELSE [columns |-> [c \in 1..Len(w.header) |->
                          <<"C","o","l","u","m","n","_">> \o IntStr(c - 1)],
          data    |-> [c \in 1..Len(w.header) |-> <<w.header[c].text>> \o w.data[c]]]

None == [columns |-> <<>>, data |-> <<>>]

ColumnIndex(d, col_name) == CHOOSE c \in 1..Len(d.columns) : d.columns[c] = col_name

Column(d, col_name) == d.data[ColumnIndex(d, col_name)]

SeqRange(s) == {s[i] : i \in 1..Len(s)}

(***************************************************************************)
(* HexSlicerApp.  The state is the app's fields and what its handlers      *)
(* write into the widgets.  The radio buttons, the value of the slice-size *)
(* spin box and the text of the assignments line edit are set by the user  *)
(* between two handlers: a handler reads them as its inputs.               *)
(***************************************************************************)
VARIABLES
    df,                     \* self.df: None, or the loaded table
    binary_columns,         \* self.binary_columns
    selected_column,        \* self.selected_column
    result_df,              \* self.result_df: None, or [columns, data]
    column_dropdown,        \* column_dropdown.currentText()
    slice_spin_maximum,     \* slice_spin.maximum()
    names_table,            \* the rows of names_table: [bits, name]
    process_btn,            \* process_btn.isEnabled()
    save_btn,               \* save_btn.isEnabled()
    n_runs,                 \* how many times process_column has reached its loop
    run,                    \* the locals of the last process_column that reached its loop
    call                    \* a call of a logic.py function: its arguments and its result

app_vars == <<df, binary_columns, selected_column, result_df, column_dropdown,
              slice_spin_maximum, names_table, process_btn, save_btn, n_runs, run>>

vars == <<df, binary_columns, selected_column, result_df, column_dropdown,
          slice_spin_maximum, names_table, process_btn, save_btn, n_runs, run, call>>

NoRun == [col |-> <<>>, known_binary |-> FALSE, expected_bits |-> 0,
          bit_assignments |-> <<>>, src |-> <<>>, rows |-> <<>>]

NoCall == [fn |-> "none"]

SpinMinimum == 1

SpinInitialMaximum == 32

\* HexSlicerApp.__init__
AppInit ==
    /\ df = None
    /\ binary_columns = {}
    /\ selected_column = <<>>
    /\ result_df = None
    /\ column_dropdown = <<>>
    /\ slice_spin_maximum = SpinInitialMaximum
    /\ names_table = <<>>
    /\ process_btn = FALSE
    /\ save_btn = FALSE
    /\ n_runs = 0
    /\ run = NoRun

\* get_current_bit_length, on the table d with the known-binary set bc
get_current_bit_length(d, bc, col_name) ==
    IF d = None \/ col_name = <<>> THEN HexWordBits
    ELSE first_value_bit_length(Column(d, col_name), col_name \in bc)

\* on_column_changed: the maximum it gives the spin box
on_column_changed(d, bc, col_name, maximum) ==
    IF d = None \/ col_name = <<>> THEN maximum
    ELSE Max(first_value_bit_length(Column(d, col_name), col_name \in bc) - 1, 1)

\* what the user has set in the slicing-mode widgets when a handler reads them:
\* the mode, a slice size within the spin box's range, the assignments text
SpinChoices == {4, 16}

AssignmentTexts == { <<"3","2">>, <<"a",",","b">> }

WidgetInputs ==
    [uniform : {TRUE}, slice_size : SpinChoices, text : {<<>>}]
        \cup [uniform : {FALSE}, slice_size : {SpinMinimum}, text : AssignmentTexts]

\* get_bit_assignments: ok is FALSE where it returns None
get_bit_assignments(d, bc, col_name, ui) ==
    IF ui.uniform
    THEN [ok     |-> TRUE,
          widths |-> uniform_assignments(get_current_bit_length(d, bc, col_name),
                                         ui.slice_size)]
    ELSE parse_bit_assignments(ui.text)

load_file(w) ==
    LET d == read_excel(w)
        bc == {col \in SeqRange(d.columns) : IsBinaryColumnName(col)}
    IN  /\ df' = d
        /\ binary_columns' = bc
        /\ column_dropdown' = d.columns[1]
        /\ slice_spin_maximum' = on_column_changed(d, bc, d.columns[1], slice_spin_maximum)
        /\ UNCHANGED <<selected_column, result_df, names_table, process_btn, save_btn,
                       n_runs, run, call>>

\* the user picks a workbook in the file dialog
LoadFile == \E w \in InputWorkbooks : load_file(w)

\* the user picks another column in the dropdown
SelectColumn ==
    /\ df # None
    /\ \E col_name \in SeqRange(df.columns) :
          /\ col_name # column_dropdown
          /\ column_dropdown' = col_name
          /\ slice_spin_maximum' =
                on_column_changed(df, binary_columns, col_name, slice_spin_maximum)
    /\ UNCHANGED <<df, binary_columns, selected_column, result_df, names_table,
                   process_btn, save_btn, n_runs, run, call>>

\* preview_columns once the assignments and the column's bit length are known
preview_checked(got, expected_bits) ==
    IF ~got.ok \/ got.widths = <<>> \/ SeqSum(got.widths) # expected_bits
    THEN UNCHANGED <<names_table, process_btn>>
    ELSE /\ names_table' =
                [k \in 1..Len(got.widths) |->
                    [bits |-> got.widths[k],
                     name |-> generate_column_names(column_dropdown, got.widths)[k]]]
         /\ process_btn' = TRUE

preview_columns ==
    /\ df # None
    /\ \E ui \in WidgetInputs :
        /\ ui.slice_size <= slice_spin_maximum
        /\ preview_checked(get_bit_assignments(df, binary_columns, column_dropdown, ui),
                           get_current_bit_length(df, binary_columns, column_dropdown))
    /\ UNCHANGED <<df, binary_columns, selected_column, result_df, column_dropdown,
                   slice_spin_maximum, save_btn, n_runs, run, call>>

MaxEditRow == 1

EditNames == {ColV}

\* the user edits a name in the table, to a name no other row holds
EditName ==
    /\ \E k \in 1..Min(Len(names_table), MaxEditRow), name \in EditNames :
          /\ \A j \in 1..Len(names_table) : names_table[j].name # name
          /\ names_table' = [names_table EXCEPT ![k].name = name]
    /\ UNCHANGED <<df, binary_columns, selected_column, result_df, column_dropdown,
                   slice_spin_maximum, process_btn, save_btn, n_runs, run, call>>

MaxRuns == 2

\* process_column's loop and what follows it
process_rows(src, cells, known_binary, expected_bits, bit_assignments, column_names) ==
    /\ result_df' =
          [columns |-> column_names,
           data    |-> [k \in 1..Len(column_names) |->
                          [i \in 1..Len(cells) |->
                              process_row(cells[i], known_binary, expected_bits,
                                          bit_assignments).sliced[k]]]]
    /\ binary_columns' = binary_columns \cup SeqRange(column_names)
    /\ save_btn' = TRUE
    /\ n_runs' = n_runs + 1
    /\ run' = [col |-> column_dropdown, known_binary |-> known_binary,
               expected_bits |-> expected_bits, bit_assignments |-> bit_assignments,
               src |-> src,
               rows |-> [i \in 1..Len(cells) |->
                            process_row(cells[i], known_binary, expected_bits,
                                        bit_assignments)]]

\* process_column's three checks before the loop
process_checked(src, cells, got, expected_bits, column_names) ==
    IF \/ ~got.ok \/ got.widths = <<>>
       \/ SeqSum(got.widths) # expected_bits
       \/ Len(column_names) # Len(got.widths)
    THEN UNCHANGED <<result_df, binary_columns, save_btn, n_runs, run>>
    ELSE process_rows(src, cells, column_dropdown \in binary_columns, expected_bits,
                      got.widths, column_names)

\* process_column once the selected column has been converted with astype(str)
process_converted(src, d, ui) ==
    /\ df' = d
    /\ process_checked(src, Column(d, column_dropdown),
                       get_bit_assignments(d, binary_columns, column_dropdown, ui),
                       get_current_bit_length(d, binary_columns, column_dropdown),
                       [k \in 1..Len(names_table) |-> names_table[k].name])

process_column ==
    /\ process_btn
    /\ df # None
    /\ n_runs < MaxRuns
    /\ selected_column' = column_dropdown
    /\ \E keep_na \in BOOLEAN, ui \in WidgetInputs :
        /\ ui.slice_size <= slice_spin_maximum
        /\ process_converted(
              Column(df, column_dropdown),
              [df EXCEPT !.data[ColumnIndex(df, column_dropdown)] =
                            astype_str(Column(df, column_dropdown), keep_na)],
              ui)
    /\ UNCHANGED <<column_dropdown, slice_spin_maximum, names_table, process_btn, call>>

Init == AppInit /\ call = NoCall

Next ==
    \/ LoadFile
    \/ SelectColumn
    \/ preview_columns
    \/ EditName
    \/ process_column

Spec == Init /\ [][Next]_vars

(***************************************************************************)
(* Calls of the logic.py functions on inputs drawn from bounded sets.  The *)
(* app stays as constructed; call holds the arguments and, once the        *)
(* function has run, its result.                                           *)
(***************************************************************************)
RECURSIVE StringsUpTo(_, _)
StringsUpTo(chars, n) ==
    IF n = 0 THEN {<<>>}
    ELSE LET shorter == StringsUpTo(chars, n - 1)
         IN  shorter \cup {<<ch>> \o t : ch \in chars, t \in {u \in shorter : Len(u) = n - 1}}

StringsOfLen(chars, lo, hi) == {t \in StringsUpTo(chars, hi) : Len(t) >= lo}

\* ---- the slicer ----
MaxWord == 5

MaxSliceWidth == 3

MaxSliceFields == 3

SliceInputs ==
    [bin_str : StringsUpTo({"0", "1"}, MaxWord),
     widths  : StringsUpTo(1..MaxSliceWidth, MaxSliceFields)]

SliceInit ==
    /\ AppInit
    /\ call \in {[fn |-> "pending", bin_str |-> a.bin_str, widths |-> a.widths,
                  ret |-> <<>>] : a \in SliceInputs}

CallSlice ==
    /\ call.fn = "pending"
    /\ call' = [call EXCEPT !.fn = "slice_bits_custom",
                            !.ret = slice_bits_custom(call.bin_str, call.widths)]
    /\ UNCHANGED app_vars

SliceSpec == SliceInit /\ [][CallSlice]_vars

\* ---- the binary path of process_column on one token ----
MaxDigits == 9

MaxTripWidth == 8

MaxTripFields == 2

\* the width lists of at most k positive entries, each at most MaxTripWidth,
\* whose sum is n
RECURSIVE Compositions(_, _)
Compositions(n, k) ==
    IF n = 0 THEN {<<>>}
    ELSE IF k = 0 THEN {}
    ELSE UNION {{<<w>> \o c : c \in Compositions(n - w, k - 1)}
                    : w \in 1..Min(n, MaxTripWidth)}

BinaryTokens ==
    {lead \o prefix \o digits :
        lead \in {<<>>, <<" ">>}, prefix \in {<<>>, <<"0","x">>},
        digits \in StringsOfLen({"0", "1"}, BinaryMinDigits + 1, MaxDigits)}

\* the width lists for every bit length a token of BinaryTokens can have
TripWidthLists == [n \in 0..(MaxDigits + 3) |-> Compositions(n, MaxTripFields)]

\* a column whose only value is the token, and assignments that pass
\* process_column's bit-count check for it
TripInit ==
    /\ AppInit
    /\ \E t \in BinaryTokens :
          \E ws \in TripWidthLists[first_value_bit_length(<<t>>, FALSE)] :
              call = [fn |-> "pending", token |-> t, widths |-> ws,
                      expected_bits |-> first_value_bit_length(<<t>>, FALSE),
                      ret |-> <<>>]

CallProcessRow ==
    /\ call.fn = "pending"
    /\ call' = [call EXCEPT !.fn = "process_row",
                            !.ret = process_row(call.token, FALSE, call.expected_bits,
                                                call.widths)]
    /\ UNCHANGED app_vars

RoundTripSpec == TripInit /\ [][CallProcessRow]_vars

\* ---- the classifier and the canonicalizer ----
MaxBody == 3

LongRun == <<"1","0","1","1","0","0","1">>

TokenBodies ==
    LET short == StringsUpTo({"0", "1", "f", "g", "_"}, MaxBody)
    IN  short \cup {LongRun \o t : t \in short}

Tokens ==
    {lead \o prefix \o body \o trail :
        lead \in {<<>>, <<" ">>},
        prefix \in {<<>>, <<"0","x">>, <<"0","X">>, <<"-">>, <<"+">>},
        body \in TokenBodies, trail \in {<<>>, <<" ">>}}

TokenInit ==
    /\ AppInit
    /\ call \in {[fn |-> "pending", token |-> t, ret |-> <<>>] : t \in Tokens}

CallIsLikelyBinary ==
    /\ call.fn = "pending"
    /\ call' = [call EXCEPT !.fn = "is_likely_binary",
                            !.ret = is_likely_binary(call.token)]
    /\ UNCHANGED app_vars

CallDetectBitLength ==
    /\ call.fn = "pending"
    /\ call' = [call EXCEPT !.fn = "detect_bit_length",
                            !.ret = detect_bit_length(call.token)]
    /\ UNCHANGED app_vars

CallHexTo32BitBin ==
    /\ call.fn = "pending"
    /\ call' = [call EXCEPT !.fn = "hex_to_32bit_bin",
                            !.ret = hex_to_32bit_bin(call.token)]
    /\ UNCHANGED app_vars

TokenNext == CallIsLikelyBinary \/ CallDetectBitLength \/ CallHexTo32BitBin

TokenSpec == TokenInit /\ [][TokenNext]_vars

\* ---- the assignment planner, the namer, and the reload of named output ----
MaxText == 4

MaxBitLength == 12

MaxSliceSize == 5

PlanTexts == StringsUpTo({"0", "3", "-", ",", " ", "a"}, MaxText)

BaseNames == {ColR, ColK}

PlanInit ==
    /\ AppInit
    /\ call \in
          {[fn |-> "pending", text |-> t, bit_length |-> 0, slice_size |-> 1,
            ok |-> FALSE, widths |-> <<>>, names |-> <<>>] : t \in PlanTexts}
          \cup
          {[fn |-> "pending", text |-> <<>>, bit_length |-> n, slice_size |-> k,
            ok |-> FALSE, widths |-> <<>>, names |-> <<>>]
                : n \in 0..MaxBitLength, k \in 1..MaxSliceSize}

\* get_bit_assignments in custom mode
PlanExplicit ==
    /\ call.fn = "pending"
    /\ call.bit_length = 0
    /\ call' = [call EXCEPT !.fn = "parse_bit_assignments",
                            !.ok = parse_bit_assignments(call.text).ok,
                            !.widths = parse_bit_assignments(call.text).widths]
    /\ UNCHANGED app_vars

\* get_bit_assignments in uniform mode
PlanUniform ==
    /\ call.fn = "pending"
    /\ call.text = <<>>
    /\ call' = [call EXCEPT !.fn = "uniform_assignments",
                            !.ok = TRUE,
                            !.widths = uniform_assignments(call.bit_length,
                                                           call.slice_size)]
    /\ UNCHANGED app_vars

\* preview_columns' default names for a planned width list
NameColumns ==
    /\ call.fn \in {"parse_bit_assignments", "uniform_assignments"}
    /\ call.ok
    /\ call.widths # <<>>
    /\ \E base_name \in BaseNames :
          call' = [call EXCEPT !.fn = "generate_column_names",
                               !.names = generate_column_names(base_name, call.widths)]
    /\ UNCHANGED app_vars

\* the output saved under those names is opened again
ReloadNamed ==
    /\ call.fn = "generate_column_names"
    /\ df = None
    /\ load_file([header |-> [k \in 1..Len(call.names) |-> StrCell(call.names[k])],
                  data   |-> [k \in 1..Len(call.names) |-> <<>>]])

PlanNext == PlanExplicit \/ PlanUniform \/ NameColumns \/ ReloadNamed

PlanSpec == PlanInit /\ [][PlanNext]_vars

(***************************************************************************)
(* The claims                                                              *)
(***************************************************************************)
BitChars == {"0", "1"}

\* a token after trimming, lower-casing and the removal of one leading 0x
TokenDigits(token) == DropHexPrefix(PyLower(PyStrip(token)))

ClassifiedBinary(token) ==
    /\ \A i \in 1..Len(TokenDigits(token)) : TokenDigits(token)[i] \in BitChars
    /\ Len(TokenDigits(token)) > BinaryMinDigits

ClassifiedInvalid(token) ==
    \E i \in 1..Len(TokenDigits(token)) : TokenDigits(token)[i] \notin HexChars

\* the bit length the specification resolves for a token
ResolvedBitLength(token) ==
    IF ClassifiedBinary(token) THEN Len(TokenDigits(token)) ELSE HexWordBits

\* the character at position p (from 1) of a word extended on the right with zeros
ExtendedChar(word, p) == IF p <= Len(word) THEN word[p] ELSE "0"

\* the sum of the widths before the i-th
Offset(widths, i) == SeqSum(SubSeq(widths, 1, i - 1))

C2_SliceLaw ==
    call.fn = "slice_bits_custom" =>
        /\ Len(call.ret) = Len(call.widths)
        /\ \A i \in 1..Len(call.widths) :
              call.ret[i] = [j \in 1..call.widths[i] |->
                                ExtendedChar(call.bin_str, Offset(call.widths, i) + j)]
        /\ Flatten(call.ret) = [p \in 1..SeqSum(call.widths) |->
                                   ExtendedChar(call.bin_str, p)]

C2_Witness ==
    /\ call.fn = "slice_bits_custom"
    /\ call.bin_str = <<"1","0","1">>
    /\ call.widths = <<2, 2>>
    /\ call.ret = << <<"1","0">>, <<"1","0">> >>

(* C3: detect_bit_length returns the number of digits left after trimming, *)
(* lower-casing and removing one leading 0x when those digits are all 0/1  *)
(* and more than 8, and 32 for every other token.                          *)
C3_BitLength ==
    call.fn = "detect_bit_length" => call.ret = ResolvedBitLength(call.token)

(* C4: every bit word process_column hands to the slicer contains only the *)
(* characters 0 and 1.                                                     *)
C4_BitWordAlphabet ==
    \A i \in 1..Len(run.rows) :
        run.rows[i].present =>
            \A j \in 1..Len(run.rows[i].bin_str) : run.rows[i].bin_str[j] \in BitChars

(* C5: for every token classified Invalid, hex_to_32bit_bin returns        *)
(* exactly 32 zero characters.                                             *)
C5_InvalidIsZero ==
    (call.fn = "hex_to_32bit_bin" /\ ClassifiedInvalid(call.token)) =>
        call.ret = Zeros(HexWordBits)

(* C6: every width list the planner returns, from a text on which          *)
(* parse_bit_assignments returns normally or from the uniform generator    *)
(* with a slice size of at least 1, has only entries >= 1.                 *)
C6_PositiveWidths ==
    (call.fn \in {"parse_bit_assignments", "uniform_assignments"} /\ call.ok) =>
        \A i \in 1..Len(call.widths) : call.widths[i] >= 1

(* C7: every default name generate_column_names produces is recognized by  *)
(* load_file when the output is opened again: the column is in             *)
(* binary_columns.                                                         *)
C7_NamesRecognized ==
    (call.fn = "generate_column_names" /\ df # None) =>
        \A k \in 1..Len(call.names) : call.names[k] \in binary_columns

(* C8: in process_column a row whose source cell is absent yields a record *)
(* of empty strings, and that record differs from the record of every row  *)
(* whose token is present but invalid.                                     *)
C8_AbsentRowsEmpty ==
    \A i \in 1..Len(run.rows) :
        run.src[i] = NaN =>
            /\ \A k \in 1..Len(run.bit_assignments) : run.rows[i].sliced[k] = <<>>
            /\ \A j \in 1..Len(run.rows) :
                  (run.src[j] # NaN /\ ClassifiedInvalid(run.src[j]))
                      => run.rows[j].sliced # run.rows[i].sliced

(* C9: whenever process_column slices a row, the sum of the widths equals  *)
(* the bit length resolved for that row's token: its length for a          *)
(* known-binary column, else 32 for a Hex or Invalid token and the digit   *)
(* count for a Binary one.                                                 *)
C9_WidthTotalPerRow ==
    \A i \in 1..Len(run.rows) :
        run.rows[i].present =>
            SeqSum(run.bit_assignments) =
                (IF run.known_binary THEN Len(run.rows[i].val_str)
                 ELSE ResolvedBitLength(run.rows[i].val_str))

(* C10: a process_column run decodes its column on the known-binary path   *)
(* exactly when the column's name, as load_file saw it, is a known-binary  *)
(* name: no earlier process_column changes that.                           *)
C10_PathFixedAtLoad ==
    run # NoRun => (run.known_binary <=> IsBinaryColumnName(run.col))

=============================================================================
